---- MODULE Spec2Model ----
(***************************************************************************)
(* A model of ResvgRenderer (capi/include/ResvgQt.h): the Qt facade over   *)
(* the resvg C API.  The facade state is ResvgPrivate::Data; the engine    *)
(* (resvg) and the toolkit (Qt) are the environment.                       *)
(*                                                                         *)
(* Real numbers (double / qreal) are fixed-point: the integer v stands for *)
(* the real v / Denom.  Ratios of two reals are exact rationals <<n, d>>.  *)
(* A QString is a sequence of one-character strings, a QByteArray or a     *)
(* C string a sequence of byte values.                                     *)
(***************************************************************************)
EXTENDS Integers, Sequences, FiniteSets, TLC

VARIABLES d, trees, destroys, dups, frees, nParse, screens, alive,
          lastLoad, lastFrom, last

vars == <<d, trees, destroys, dups, frees, nParse, screens, alive,
          lastLoad, lastFrom, last>>

\* ------------------------------------------------------------------ bounds

\* Loads that reach the engine's parser, per facade.
MaxParse == 2

\* Resolution of the reals: v stands for v / Denom.
Denom == 2

\* ------------------------------------------------------------ toolkit types

Abs(n) == IF n < 0 THEN -n ELSE n

RECURSIVE Gcd(_, _)
Gcd(a, b) == IF b = 0 THEN a ELSE Gcd(b, a % b)

Sign(n) == IF n < 0 THEN -1 ELSE IF n > 0 THEN 1 ELSE 0

\* The quotient of two doubles, n / m: an exact rational in lowest terms with
\* a positive denominator; x / 0 is the infinity <<+-1, 0>> or the NaN <<0, 0>>.
Quot(n, m) ==
    IF m = 0 THEN <<Sign(n), 0>>
    ELSE LET g == Gcd(Abs(n), Abs(m))
         IN  <<(Sign(m) * n) \div g, Abs(m) \div g>>

\* A double as a rational.
Real(v) == Quot(v, Denom)

\* (uint) of a non-negative double: truncation.
ToUInt(v) == v \div Denom

\* qRound: to the nearest integer, halves away from zero.
qRound(v) ==
    IF v >= 0 THEN (2 * v + Denom) \div (2 * Denom)
    ELSE -((2 * (-v) + Denom) \div (2 * Denom))

\* QRectF(x, y, w, h) and QRect(x, y, w, h).
Rect(x, y, w, h) == [x |-> x, y |-> y, w |-> w, h |-> h]

\* QRectF(): the null rectangle.
NullRectF == Rect(0, 0, 0, 0)

\* QRectF::isValid.
RectIsValid(r) == r.w > 0 /\ r.h > 0

\* QRect -> QRectF (the conversion in `bounds.isValid() ? bounds : p->viewport()`).
ToRectF(r) == Rect(r.x * Denom, r.y * Denom, r.w * Denom, r.h * Denom)

\* QRectF::toRect.
ToRect(r) == Rect(qRound(r.x), qRound(r.y),
                  qRound(r.x + r.w) - qRound(r.x),
                  qRound(r.y + r.h) - qRound(r.y))

\* QSizeF(w, h); QSizeF() is the invalid size (-1, -1).
Size(w, h) == [w |-> w, h |-> h]
InvalidSizeF == Size(-Denom, -Denom)

\* QRectF::size.
RectSize(r) == Size(r.w, r.h)

\* QSizeF::toSize.
ToSize(s) == Size(qRound(s.w), qRound(s.h))

\* QTransform(a, b, c, d, e, f), each entry a rational; QTransform() is the identity.
Transform(a, b, c, dd, e, f) == [a |-> a, b |-> b, c |-> c, d |-> dd, e |-> e, f |-> f]
IdentityTransform == Transform(<<1, 1>>, <<0, 1>>, <<0, 1>>, <<1, 1>>, <<0, 1>>, <<0, 1>>)

\* QString::startsWith.
startsWith(s, prefix) ==
    /\ Len(s) >= Len(prefix)
    /\ SubSeq(s, 1, Len(prefix)) = prefix

\* The UTF-8 encoding of one character.
Utf8Of(c) ==
    CASE c = ":" -> <<58>>
      [] c = "/" -> <<47>>
      [] c = "a" -> <<97>>
      [] c = "f" -> <<102>>
      [] c = "g" -> <<103>>
      [] c = "n" -> <<110>>
      [] c = "r" -> <<114>>
      [] c = "x" -> <<120>>
      [] c = "e'" -> <<195, 169>>

\* QString::toUtf8 (followed by constData).
RECURSIVE toUtf8(_)
toUtf8(s) == IF s = <<>> THEN <<>> ELSE Utf8Of(Head(s)) \o toUtf8(Tail(s))

\* A char pointer: NULL, or an owned C string.
NullPath == [isNull |-> TRUE, str |-> <<>>]

\* qstrdup: a fresh copy of a C string.
qstrdup(raw) == [isNull |-> FALSE, str |-> raw]

\* --------------------------------------------------------------- the engine

\* nullptr, for a resvg_render_tree pointer.
NullTree == 0

\* The engine's default DPI, set by resvg_init_options.
EngineDefaultDpi == 96

\* resvg_init_options: every option at its default.
resvg_init_options == [path |-> NullPath, dpi |-> EngineDefaultDpi]

\* The engine's result codes (the resvg_error enum).
Codes == {"OK", "NOT_AN_UTF8_STR", "FILE_OPEN_FAILED", "FILE_WRITE_FAILED",
          "INVALID_FILE_SUFFIX", "MALFORMED_GZIP", "PARSING_FAILED", "NO_CANVAS"}

\* The documents the engine can parse: viewbox, whether the tree has
\* renderable nodes, the nodes by id, and the bounding box and transform of
\* those that have one.  Ids are UTF-8 byte strings.
IdFoo == <<102>>
IdGrp == <<103>>

DocNames == {"wide", "tiny"}

DocOf(name) ==
    IF name = "wide"
    THEN [viewbox  |-> Rect(0, 0, 200 * Denom, 100 * Denom),
          hasNodes |-> TRUE,
          nodes    |-> {IdFoo, IdGrp},
          bbox     |-> (IdFoo :> Rect(10 * Denom, 20 * Denom, 30 * Denom + 1, 40 * Denom)),
          ts       |-> (IdFoo :> IdentityTransform) @@
                       (IdGrp :> Transform(<<2, 1>>, <<0, 1>>, <<0, 1>>, <<3, 1>>,
                                           <<5, 1>>, <<7, 2>>))]
    ELSE [viewbox  |-> Rect(1, 0, 10 * Denom + 1, 10 * Denom),
          hasNodes |-> FALSE,
          nodes    |-> {},
          bbox     |-> <<>>,
          ts       |-> <<>>]

\* One call of an engine entry point: the entry point, the tree handle it is
\* given, and whether that handle is a live tree at the time of the call.
EngineCall(fn, tree, ts) ==
    [fn |-> fn, tree |-> tree,
     live |-> (tree \in 1..Len(ts)) /\ ts[tree].live]

\* ------------------------------------------------------------------ inputs

\* Filesystem paths and virtual-resource paths ("e'" is a character outside
\* ASCII, two bytes in UTF-8).
FsPaths  == { <<"a">>, <<"e'">> }
ResPaths == { <<":", "/", "r">>, <<":", "/", "x">> }
Paths    == FsPaths \cup ResPaths

\* QFile::open(ReadOnly) and readAll on a resource path: the resources
\* compiled into the application.
ResourceFiles == (<<":", "/", "r">> :> <<60, 115>>)
FileOpens(path) == path \in DOMAIN ResourceFiles
readAll(path) == ResourceFiles[path]

\* Byte arrays handed to load(const QByteArray &).
DataSet == { <<255>> }

\* Element ids handed to the queries and to the by-id draw.
Ids == { <<"f">>, <<"g">>, <<"n">> }

\* qApp->screens(): no display, or a hi-DPI primary screen.
ScreenSets == { <<>>, <<[logicalDotsPerInch |-> 96, devicePixelRatio |-> 2]>> }

\* ----------------------------------------------------- ResvgPrivate::Data

\* initOptions
initOptions(scr) ==
    LET opt == resvg_init_options
    IN  IF scr # <<>>
        THEN [opt EXCEPT !.dpi = scr[1].logicalDotsPerInch * scr[1].devicePixelRatio]
        ELSE opt

\* Data::Data, with the member initialisers.
Data == [tree |-> NullTree, opt |-> resvg_init_options,
         viewBox |-> NullRectF, errMsg |-> ""]

\* The facade and the engine's heap, threaded through one handler:
\*   d        ResvgPrivate::Data
\*   trees    every tree the engine has created, by handle
\*   destroys calls of resvg_tree_destroy
\*   dups     calls of qstrdup, frees: calls of delete[]
\*   calls    the engine calls of this handler, in order
\*   reads    the QFile::readAll calls of this handler
World == [d |-> d, trees |-> trees, destroys |-> destroys, dups |-> dups,
          frees |-> frees, calls |-> <<>>, reads |-> 0]

\* Data::reset that forgets the tree: it neither destroys nor nulls the handle.
reset_keepTree(w, scr) ==
    LET w2 == IF ~w.d.opt.path.isNull
              THEN [w EXCEPT !.frees = @ + 1, !.d.opt.path = NullPath]
              ELSE w
    IN  [w2 EXCEPT !.d.opt = initOptions(scr),
                   !.d.viewBox = NullRectF,
                   !.d.errMsg = ""]

\* Data::reset that nulls the handle without destroying the tree.
reset_leak(w, scr) ==
    LET w1 == [w EXCEPT !.d.tree = NullTree]
        w2 == IF ~w1.d.opt.path.isNull
              THEN [w1 EXCEPT !.frees = @ + 1, !.d.opt.path = NullPath]
              ELSE w1
    IN  [w2 EXCEPT !.d.opt = initOptions(scr),
                   !.d.viewBox = NullRectF,
                   !.d.errMsg = ""]

\* Data::reset that leaves the error message of the load before.
reset_keepErr(w, scr) ==
    LET w1 == IF w.d.tree # NullTree
              THEN [w EXCEPT
                      !.calls = Append(@, EngineCall("resvg_tree_destroy", w.d.tree, w.trees)),
                      !.trees = [h \in DOMAIN @ |->
                                   IF h = w.d.tree THEN [@[h] EXCEPT !.live = FALSE]
                                   ELSE @[h]],
                      !.destroys = @ + 1,
                      !.d.tree = NullTree]
              ELSE w
        w2 == IF ~w1.d.opt.path.isNull
              THEN [w1 EXCEPT !.frees = @ + 1, !.d.opt.path = NullPath]
              ELSE w1
    IN  [w2 EXCEPT !.d.opt = initOptions(scr),
                   !.d.viewBox = NullRectF]

\* Data::reset that drops the base path without releasing it.
reset_noFree(w, scr) ==
    LET w1 == IF w.d.tree # NullTree
              THEN [w EXCEPT
                      !.calls = Append(@, EngineCall("resvg_tree_destroy", w.d.tree, w.trees)),
                      !.trees = [h \in DOMAIN @ |->
                                   IF h = w.d.tree THEN [@[h] EXCEPT !.live = FALSE]
                                   ELSE @[h]],
                      !.destroys = @ + 1,
                      !.d.tree = NullTree]
              ELSE w
    IN  [w1 EXCEPT !.d.opt = initOptions(scr),
                   !.d.viewBox = NullRectF,
                   !.d.errMsg = ""]

\* Data::reset that destroys the tree and keeps the handle.
reset_dangling(w, scr) ==
    LET w1 == IF w.d.tree # NullTree
              THEN [w EXCEPT
                      !.calls = Append(@, EngineCall("resvg_tree_destroy", w.d.tree, w.trees)),
                      !.trees = [h \in DOMAIN @ |->
                                   IF h = w.d.tree THEN [@[h] EXCEPT !.live = FALSE]
                                   ELSE @[h]],
                      !.destroys = @ + 1]
              ELSE w
        w2 == IF ~w1.d.opt.path.isNull
              THEN [w1 EXCEPT !.frees = @ + 1, !.d.opt.path = NullPath]
              ELSE w1
    IN  [w2 EXCEPT !.d.opt = initOptions(scr),
                   !.d.viewBox = NullRectF,
                   !.d.errMsg = ""]

\* Data::reset
reset(w, scr) ==
    LET w1 == IF w.d.tree # NullTree
              THEN [w EXCEPT
                      !.calls = Append(@, EngineCall("resvg_tree_destroy", w.d.tree, w.trees)),
                      !.trees = [h \in DOMAIN @ |->
                                   IF h = w.d.tree THEN [@[h] EXCEPT !.live = FALSE]
                                   ELSE @[h]],
                      !.destroys = @ + 1,
                      !.d.tree = NullTree]
              ELSE w
        w2 == IF ~w1.d.opt.path.isNull
              THEN [w1 EXCEPT !.frees = @ + 1, !.d.opt.path = NullPath]
              ELSE w1
    IN  [w2 EXCEPT !.d.opt = initOptions(scr),
                   !.d.viewBox = NullRectF,
                   !.d.errMsg = ""]

\* errorToString with the messages of two codes exchanged.
errorToString_swapped(err) ==
    CASE err = "OK"                  -> ""
      [] err = "NOT_AN_UTF8_STR"     -> "The SVG content has not an UTF-8 encoding."
      [] err = "FILE_OPEN_FAILED"    -> "Failed to open the file."
      [] err = "FILE_WRITE_FAILED"   -> "Failed to write to the file."
      [] err = "INVALID_FILE_SUFFIX" -> "Invalid file suffix."
      [] err = "MALFORMED_GZIP"      -> "Failed to parse an SVG data."
      [] err = "PARSING_FAILED"      -> "Not a GZip compressed data."
      [] err = "NO_CANVAS"           -> "Failed to allocate the canvas."

\* errorToString
errorToString(err) ==
    CASE err = "OK"                  -> ""
      [] err = "NOT_AN_UTF8_STR"     -> "The SVG content has not an UTF-8 encoding."
      [] err = "FILE_OPEN_FAILED"    -> "Failed to open the file."
      [] err = "FILE_WRITE_FAILED"   -> "Failed to write to the file."
      [] err = "INVALID_FILE_SUFFIX" -> "Invalid file suffix."
      [] err = "MALFORMED_GZIP"      -> "Not a GZip compressed data."
      [] err = "PARSING_FAILED"      -> "Failed to parse an SVG data."
      [] err = "NO_CANVAS"           -> "Failed to allocate the canvas."

\* resvg_parse_tree_from_file / resvg_parse_tree_from_data: the engine answers
\* out.err; on OK it creates a tree for out.doc and stores its handle through
\* the out-pointer, otherwise it leaves the out-pointer as it was.  The call
\* is logged with the handle the out-pointer holds on entry, the path or the
\* bytes the engine is given, and the base path of the options.
resvg_parse_tree(w, fn, input, out) ==
    LET w1 == [w EXCEPT !.calls = Append(@, [fn |-> fn, tree |-> w.d.tree,
                                             live |-> FALSE, input |-> input,
                                             path |-> w.d.opt.path])]
    IN  IF out.err = "OK"
        THEN [w1 EXCEPT !.trees = Append(@, [doc |-> out.doc, live |-> TRUE]),
                        !.d.tree = Len(w.trees) + 1]
        ELSE w1

\* resvg_get_image_viewbox
resvg_get_image_viewbox(ts, tree) == DocOf(ts[tree].doc).viewbox

\* The tail of a load that does not record the viewbox.
afterParse_noViewBox(w, out) ==
    IF out.err # "OK"
    THEN [w |-> [w EXCEPT !.d.errMsg = errorToString(out.err)], ret |-> FALSE]
    ELSE [w |-> w, ret |-> TRUE]

\* The tail both loads share: translate the error, or record the viewbox.
afterParse(w, out) ==
    IF out.err # "OK"
    THEN [w |-> [w EXCEPT !.d.errMsg = errorToString(out.err)], ret |-> FALSE]
    ELSE LET r == resvg_get_image_viewbox(w.trees, w.d.tree)
         IN  [w   |-> [w EXCEPT
                         !.calls = Append(@, EngineCall("resvg_get_image_viewbox",
                                                        w.d.tree, w.trees)),
                         !.d.viewBox = Rect(r.x, r.y, r.w, r.h)],
              ret |-> TRUE]

\* ResvgRenderer::load(const QByteArray &)
loadData(w, data, out, scr) ==
    afterParse(resvg_parse_tree(reset(w, scr), "resvg_parse_tree_from_data", data, out),
               out)

\* load(const QString &) without the resource branch: every path goes to the
\* engine as a filesystem path.
loadFile_noResourceCheck(w, filePath, out, scr) ==
    LET w1 == reset(w, scr)
        rawFilePath == toUtf8(filePath)
        w2 == [w1 EXCEPT !.d.opt.path = qstrdup(rawFilePath), !.dups = @ + 1]
    IN  afterParse(resvg_parse_tree(w2, "resvg_parse_tree_from_file", rawFilePath,
                                    out), out)

\* load(const QString &) that releases the base path again when the parse fails.
loadFile_pathOnSuccess(w, filePath, out, scr) ==
    IF startsWith(filePath, <<":", "/">>)
    THEN IF FileOpens(filePath)
         THEN loadData([w EXCEPT !.reads = @ + 1], readAll(filePath), out, scr)
         ELSE [w |-> w, ret |-> FALSE]
    ELSE LET w1 == reset(w, scr)
             rawFilePath == toUtf8(filePath)
             w2 == [w1 EXCEPT !.d.opt.path = qstrdup(rawFilePath), !.dups = @ + 1]
             r  == afterParse(resvg_parse_tree(w2, "resvg_parse_tree_from_file",
                                               rawFilePath, out), out)
         IN  IF r.ret THEN r
             ELSE [r EXCEPT !.w.d.opt.path = NullPath, !.w.frees = @ + 1]

\* load(const QString &) that resets and reports when a resource does not open.
loadFile_resetOnOpenFail(w, filePath, out, scr) ==
    IF startsWith(filePath, <<":", "/">>)
    THEN IF FileOpens(filePath)
         THEN loadData([w EXCEPT !.reads = @ + 1], readAll(filePath), out, scr)
         ELSE [w   |-> [reset(w, scr) EXCEPT
                          !.d.errMsg = errorToString("FILE_OPEN_FAILED")],
               ret |-> FALSE]
    ELSE LET w1 == reset(w, scr)
             rawFilePath == toUtf8(filePath)
             w2 == [w1 EXCEPT !.d.opt.path = qstrdup(rawFilePath), !.dups = @ + 1]
         IN  afterParse(resvg_parse_tree(w2, "resvg_parse_tree_from_file", rawFilePath,
                                         out), out)

\* ResvgRenderer::load(const QString &)
loadFile(w, filePath, out, scr) ==
    IF startsWith(filePath, <<":", "/">>)
    THEN IF FileOpens(filePath)
         THEN loadData([w EXCEPT !.reads = @ + 1], readAll(filePath), out, scr)
         ELSE [w |-> w, ret |-> FALSE]
    ELSE LET w1 == reset(w, scr)
             rawFilePath == toUtf8(filePath)
             w2 == [w1 EXCEPT !.d.opt.path = qstrdup(rawFilePath), !.dups = @ + 1]
         IN  afterParse(resvg_parse_tree(w2, "resvg_parse_tree_from_file", rawFilePath,
                                         out), out)

\* Whether load(filePath) reaches the engine's parser.
ReachesParse(filePath) == startsWith(filePath, <<":", "/">>) => FileOpens(filePath)

\* ----------------------------------------------------------------- queries
\* Each query yields its result and the engine calls it made.

Answer(ret, calls) == [ret |-> ret, calls |-> calls]

\* resvg_is_image_empty: whether the tree has no renderable nodes.
resvg_is_image_empty(ts, tree) == ~DocOf(ts[tree].doc).hasNodes

\* resvg_qt_get_node_bbox: the bounding box of the node with this id, if it has one.
resvg_qt_get_node_bbox(ts, tree, rawId) ==
    LET doc == DocOf(ts[tree].doc)
    IN  IF rawId \in DOMAIN doc.bbox
        THEN [ok |-> TRUE, bbox |-> doc.bbox[rawId]]
        ELSE [ok |-> FALSE, bbox |-> NullRectF]

\* resvg_node_exists
resvg_node_exists(ts, tree, rawId) == rawId \in DocOf(ts[tree].doc).nodes

\* resvg_get_node_transform
resvg_get_node_transform(ts, tree, rawId) ==
    LET doc == DocOf(ts[tree].doc)
    IN  IF rawId \in DOMAIN doc.ts
        THEN [ok |-> TRUE, ts |-> doc.ts[rawId]]
        ELSE [ok |-> FALSE, ts |-> IdentityTransform]

\* ResvgRenderer::isValid
isValid(dd) == dd.tree # NullTree

\* ResvgRenderer::errorString
errorString(dd) == dd.errMsg

\* isEmpty that answers false without a document.
isEmpty_noDocFalse(dd, ts) ==
    IF dd.tree # NullTree
    THEN Answer(~resvg_is_image_empty(ts, dd.tree),
                <<EngineCall("resvg_is_image_empty", dd.tree, ts)>>)
    ELSE Answer(FALSE, <<>>)

\* ResvgRenderer::isEmpty
isEmpty(dd, ts) ==
    IF dd.tree # NullTree
    THEN Answer(~resvg_is_image_empty(ts, dd.tree),
                <<EngineCall("resvg_is_image_empty", dd.tree, ts)>>)
    ELSE Answer(TRUE, <<>>)

\* ResvgRenderer::defaultSizeF
defaultSizeF(dd) ==
    IF dd.tree # NullTree THEN RectSize(dd.viewBox) ELSE InvalidSizeF

\* ResvgRenderer::defaultSize
defaultSize(dd) == ToSize(defaultSizeF(dd))

\* ResvgRenderer::viewBoxF
viewBoxF(dd) ==
    IF dd.tree # NullTree THEN dd.viewBox ELSE NullRectF

\* ResvgRenderer::viewBox
viewBox(dd) == ToRect(viewBoxF(dd))

\* ResvgRenderer::boundsOnElement
boundsOnElement(dd, ts, id) ==
    IF dd.tree = NullTree
    THEN Answer(NullRectF, <<>>)
    ELSE LET rawId == toUtf8(id)
             q == resvg_qt_get_node_bbox(ts, dd.tree, rawId)
             calls == <<EngineCall("resvg_qt_get_node_bbox", dd.tree, ts)>>
         IN  IF q.ok
             THEN Answer(Rect(q.bbox.x, q.bbox.y, q.bbox.h, q.bbox.w), calls)
             ELSE Answer(NullRectF, calls)

\* elementExists that answers true without a document.
elementExists_noDocTrue(dd, ts, id) ==
    IF dd.tree = NullTree
    THEN Answer(TRUE, <<>>)
    ELSE Answer(resvg_node_exists(ts, dd.tree, toUtf8(id)),
                <<EngineCall("resvg_node_exists", dd.tree, ts)>>)

\* ResvgRenderer::elementExists
elementExists(dd, ts, id) ==
    IF dd.tree = NullTree
    THEN Answer(FALSE, <<>>)
    ELSE Answer(resvg_node_exists(ts, dd.tree, toUtf8(id)),
                <<EngineCall("resvg_node_exists", dd.tree, ts)>>)

\* ResvgRenderer::transformForElement
transformForElement(dd, ts, id) ==
    IF dd.tree = NullTree
    THEN Answer(IdentityTransform, <<>>)
    ELSE LET q == resvg_get_node_transform(ts, dd.tree, toUtf8(id))
             calls == <<EngineCall("resvg_get_node_transform", dd.tree, ts)>>
         IN  IF q.ok
             THEN Answer(Transform(q.ts.a, q.ts.b, q.ts.c, q.ts.d, q.ts.e, q.ts.f), calls)
             ELSE Answer(IdentityTransform, calls)

\* ------------------------------------------------------------------- draws
\* A QPainter: the world transform as the list of the transforms composed
\* into it (latest first), the render hints, the save stack, the viewport.

\* QPainter::save
save(p) == [p EXCEPT !.stack = Append(@, [transform |-> p.transform, hints |-> p.hints])]

\* QPainter::restore (on an empty stack: a warning, and nothing changes)
restore(p) ==
    IF p.stack = <<>> THEN p
    ELSE LET top == p.stack[Len(p.stack)]
         IN  [p EXCEPT !.transform = top.transform,
                       !.hints = top.hints,
                       !.stack = SubSeq(@, 1, Len(@) - 1)]

\* QPainter::setRenderHint(hint, true)
setRenderHint(p, hint) == [p EXCEPT !.hints = @ \cup {hint}]

\* QPainter::setTransform(transform, combine)
setTransform(p, t, combine) ==
    [p EXCEPT !.transform = IF combine THEN <<t>> \o @ ELSE <<t>>]

\* QPainter::viewport
viewport(p) == p.viewport

\* resvg_qt_render_to_canvas / resvg_qt_render_to_canvas_by_id: the engine
\* paints through the painter and hands it back as it found it.
RenderCall(fn, tree, ts, imgSize, rawId, p) ==
    [fn |-> fn, tree |-> tree,
     live |-> (tree \in 1..Len(ts)) /\ ts[tree].live,
     size |-> imgSize, id |-> rawId,
     transform |-> p.transform, hints |-> p.hints, depth |-> Len(p.stack)]

\* What a draw leaves: the painter, the engine calls, the painter calls, the
\* warnings written through qWarning.
Drawn(p, calls, pops, warns) == [p |-> p, calls |-> calls, pops |-> pops, warns |-> warns]

\* render(QPainter *, const QRectF &) that returns without restoring the painter.
renderBounds_noRestore(dd, ts, p, bounds) ==
    IF dd.tree = NullTree
    THEN Drawn(p, <<>>, <<>>, 0)
    ELSE LET r  == IF RectIsValid(bounds) THEN bounds ELSE ToRectF(viewport(p))
             p1 == save(p)
             p2 == setRenderHint(p1, "Antialiasing")
             sx == Quot(r.w, dd.viewBox.w)
             sy == Quot(r.h, dd.viewBox.h)
             p3 == setTransform(p2, Transform(sx, <<0, 1>>, <<0, 1>>, sy,
                                              Real(r.x), Real(r.y)), TRUE)
             imgSize == Size(ToUInt(dd.viewBox.w), ToUInt(dd.viewBox.h))
             call == RenderCall("resvg_qt_render_to_canvas", dd.tree, ts, imgSize, <<>>, p3)
         IN  Drawn(p3, <<call>>, <<"viewport", "save", "setRenderHint", "setTransform">>, 0)

\* render(QPainter *, const QRectF &) that replaces the painter's transform
\* instead of composing with it.
renderBounds_replace(dd, ts, p, bounds) ==
    IF dd.tree = NullTree
    THEN Drawn(p, <<>>, <<>>, 0)
    ELSE LET r  == IF RectIsValid(bounds) THEN bounds ELSE ToRectF(viewport(p))
             p1 == save(p)
             p2 == setRenderHint(p1, "Antialiasing")
             sx == Quot(r.w, dd.viewBox.w)
             sy == Quot(r.h, dd.viewBox.h)
             p3 == setTransform(p2, Transform(sx, <<0, 1>>, <<0, 1>>, sy,
                                              Real(r.x), Real(r.y)), FALSE)
             imgSize == Size(ToUInt(dd.viewBox.w), ToUInt(dd.viewBox.h))
             call == RenderCall("resvg_qt_render_to_canvas", dd.tree, ts, imgSize, <<>>, p3)
             p4 == restore(p3)
         IN  Drawn(p4, <<call>>,
                   <<"viewport", "save", "setRenderHint", "setTransform", "restore">>, 0)

\* ResvgRenderer::render(QPainter *, const QRectF &)
renderBounds(dd, ts, p, bounds) ==
    IF dd.tree = NullTree
    THEN Drawn(p, <<>>, <<>>, 0)
    ELSE LET r  == IF RectIsValid(bounds) THEN bounds ELSE ToRectF(viewport(p))
             p1 == save(p)
             p2 == setRenderHint(p1, "Antialiasing")
             sx == Quot(r.w, dd.viewBox.w)
             sy == Quot(r.h, dd.viewBox.h)
             p3 == setTransform(p2, Transform(sx, <<0, 1>>, <<0, 1>>, sy,
                                              Real(r.x), Real(r.y)), TRUE)
             imgSize == Size(ToUInt(dd.viewBox.w), ToUInt(dd.viewBox.h))
             call == RenderCall("resvg_qt_render_to_canvas", dd.tree, ts, imgSize, <<>>, p3)
             p4 == restore(p3)
         IN  Drawn(p4, <<call>>,
                   <<"viewport", "save", "setRenderHint", "setTransform", "restore">>, 0)

\* ResvgRenderer::render(QPainter *)
render(dd, ts, p) == renderBounds(dd, ts, p, NullRectF)

\* The by-id draw that saves the painter before it asks for the bounding box.
renderId_saveFirst(dd, ts, p, elementId, bounds) ==
    IF dd.tree = NullTree
    THEN Drawn(p, <<>>, <<>>, 0)
    ELSE LET rawId == toUtf8(elementId)
             q     == resvg_qt_get_node_bbox(ts, dd.tree, rawId)
             query == EngineCall("resvg_qt_get_node_bbox", dd.tree, ts)
             p1    == save(p)
             p2    == setRenderHint(p1, "Antialiasing")
         IN  IF ~q.ok
             THEN Drawn(p2, <<query>>, <<"save", "setRenderHint">>, 1)
             ELSE LET r  == IF RectIsValid(bounds) THEN bounds ELSE ToRectF(viewport(p2))
                      sx == Quot(r.w, q.bbox.w)
                      sy == Quot(r.h, q.bbox.h)
                      p3 == setTransform(p2, Transform(sx, <<0, 1>>, <<0, 1>>, sy,
                                                       Real(bounds.x), Real(bounds.y)), TRUE)
                      imgSize == Size(ToUInt(q.bbox.w), ToUInt(q.bbox.h))
                      call == RenderCall("resvg_qt_render_to_canvas_by_id", dd.tree, ts,
                                         imgSize, rawId, p3)
                      p4 == restore(p3)
                  IN  Drawn(p4, <<query, call>>,
                            <<"save", "setRenderHint", "viewport", "setTransform", "restore">>, 0)

\* The by-id draw that translates by the origin of the effective rectangle,
\* as the whole-document draw does.
renderId_rOrigin(dd, ts, p, elementId, bounds) ==
    IF dd.tree = NullTree
    THEN Drawn(p, <<>>, <<>>, 0)
    ELSE LET rawId == toUtf8(elementId)
             q     == resvg_qt_get_node_bbox(ts, dd.tree, rawId)
             query == EngineCall("resvg_qt_get_node_bbox", dd.tree, ts)
         IN  IF ~q.ok
             THEN Drawn(p, <<query>>, <<>>, 1)
             ELSE LET p1 == save(p)
                      p2 == setRenderHint(p1, "Antialiasing")
                      r  == IF RectIsValid(bounds) THEN bounds ELSE ToRectF(viewport(p2))
                      sx == Quot(r.w, q.bbox.w)
                      sy == Quot(r.h, q.bbox.h)
                      p3 == setTransform(p2, Transform(sx, <<0, 1>>, <<0, 1>>, sy,
                                                       Real(r.x), Real(r.y)), TRUE)
                      imgSize == Size(ToUInt(q.bbox.w), ToUInt(q.bbox.h))
                      call == RenderCall("resvg_qt_render_to_canvas_by_id", dd.tree, ts,
                                         imgSize, rawId, p3)
                      p4 == restore(p3)
                  IN  Drawn(p4, <<query, call>>,
                            <<"save", "setRenderHint", "viewport", "setTransform", "restore">>, 0)

\* ResvgRenderer::render(QPainter *, const QString &, const QRectF &)
renderId(dd, ts, p, elementId, bounds) ==
    IF dd.tree = NullTree
    THEN Drawn(p, <<>>, <<>>, 0)
    ELSE LET rawId == toUtf8(elementId)
             q     == resvg_qt_get_node_bbox(ts, dd.tree, rawId)
             query == EngineCall("resvg_qt_get_node_bbox", dd.tree, ts)
         IN  IF ~q.ok
             THEN Drawn(p, <<query>>, <<>>, 1)
             ELSE LET p1 == save(p)
                      p2 == setRenderHint(p1, "Antialiasing")
                      r  == IF RectIsValid(bounds) THEN bounds ELSE ToRectF(viewport(p2))
                      sx == Quot(r.w, q.bbox.w)
                      sy == Quot(r.h, q.bbox.h)
                      p3 == setTransform(p2, Transform(sx, <<0, 1>>, <<0, 1>>, sy,
                                                       Real(bounds.x), Real(bounds.y)), TRUE)
                      imgSize == Size(ToUInt(q.bbox.w), ToUInt(q.bbox.h))
                      call == RenderCall("resvg_qt_render_to_canvas_by_id", dd.tree, ts,
                                         imgSize, rawId, p3)
                      p4 == restore(p3)
                  IN  Drawn(p4, <<query, call>>,
                            <<"save", "setRenderHint", "viewport", "setTransform", "restore">>, 0)

\* The painters a caller draws on: a fresh one, and one with a transform, a
\* hint and a saved state of its own, and a viewport away from the origin.
CallerTransform == Transform(<<3, 1>>, <<0, 1>>, <<0, 1>>, <<3, 1>>, <<1, 1>>, <<1, 1>>)

Painters ==
    { [transform |-> <<>>, hints |-> {}, stack |-> <<>>,
       viewport |-> Rect(0, 0, 400, 200)],
      [transform |-> <<CallerTransform>>, hints |-> {"SmoothPixmapTransform"},
       stack |-> <<[transform |-> <<>>, hints |-> {}]>>,
       viewport |-> Rect(5, 7, 60, 80)] }

\* The bounds a caller passes: none (the null rectangle), a valid one, and an
\* invalid one away from the origin.
BoundsSet == { NullRectF, Rect(100 * Denom, 100 * Denom, 60 * Denom, 80 * Denom),
               Rect(3 * Denom, 4 * Denom, 0, 0) }

\* ------------------------------------------------------------ state machine

\* What a handler leaves for the caller to see: the operation, its argument,
\* its result (a record whose one field names the result's type), the engine
\* calls, painter calls and warnings it made, the resource reads, and the
\* painter before and after.
NoArg == [none |-> TRUE]
NoValue == [none |-> TRUE]

Result(op, arg, ret, calls, pops, warns, reads, pBefore, pAfter) ==
    [op |-> op, arg |-> arg, ret |-> ret, calls |-> calls, pops |-> pops,
     warns |-> warns, reads |-> reads, pBefore |-> pBefore, pAfter |-> pAfter]

NoPainter == [transform |-> <<>>, hints |-> {}, stack |-> <<>>, viewport |-> Rect(0, 0, 0, 0)]

\* Where the latest load that got to the parser took the document from: a
\* filesystem path, or bytes (handed in, or read from a resource).
NoSource == [kind |-> "none", path |-> <<>>]

SourceOf(op, arg) ==
    IF op = "loadFile" /\ arg.path \in FsPaths
    THEN [kind |-> "file", path |-> arg.path]
    ELSE [kind |-> "bytes", path |-> <<>>]

\* ResvgRenderer::ResvgRenderer()
Init ==
    /\ d = Data
    /\ trees = <<>>
    /\ destroys = 0
    /\ dups = 0
    /\ frees = 0
    /\ nParse = 0
    /\ screens \in ScreenSets
    /\ alive = TRUE
    /\ lastLoad = "none"
    /\ lastFrom = NoSource
    /\ last = Result("construct", NoArg, NoValue, <<>>, <<>>, 0, 0, NoPainter, NoPainter)

\* Publish the world a load handler leaves.
Publish(r, op, arg, parses) ==
    /\ d' = r.w.d
    /\ trees' = r.w.trees
    /\ destroys' = r.w.destroys
    /\ dups' = r.w.dups
    /\ frees' = r.w.frees
    /\ nParse' = nParse + parses
    /\ lastLoad' = IF r.ret THEN "ok" ELSE "fail"
    /\ lastFrom' = IF parses = 0 THEN lastFrom ELSE SourceOf(op, arg)
    /\ last' = Result(op, arg, [bool |-> r.ret], r.w.calls, <<>>, 0, r.w.reads, NoPainter, NoPainter)
    /\ UNCHANGED <<screens, alive>>

\* The engine's answer to a parse: a result code, and the document on OK.
Outcomes ==
    {[err |-> "OK", doc |-> n] : n \in DocNames}
      \cup {[err |-> c, doc |-> "none"] : c \in Codes \ {"OK"}}

\* load(const QString &filePath)
LoadFile ==
    /\ alive
    /\ \E filePath \in Paths, out \in Outcomes :
          /\ ReachesParse(filePath) => nParse < MaxParse
          /\ Publish(loadFile(World, filePath, out, screens), "loadFile",
                     [path |-> filePath, out |-> out],
                     IF ReachesParse(filePath) THEN 1 ELSE 0)

\* load(const QByteArray &data)
LoadData ==
    /\ alive
    /\ nParse < MaxParse
    /\ \E data \in DataSet, out \in Outcomes :
          Publish(loadData(World, data, out, screens), "loadData",
                  [data |-> data, out |-> out], 1)

\* ~ResvgRenderer: the QScopedPointer deletes Data, whose destructor resets.
Destruct ==
    /\ alive
    /\ LET w == reset(World, screens)
       IN  /\ d' = w.d
           /\ trees' = w.trees
           /\ destroys' = w.destroys
           /\ dups' = w.dups
           /\ frees' = w.frees
           /\ last' = Result("destruct", NoArg, NoValue, w.calls, <<>>, 0, 0, NoPainter, NoPainter)
    /\ alive' = FALSE
    /\ UNCHANGED <<nParse, screens, lastLoad, lastFrom>>

\* A query or a draw: the facade and the engine's heap stay as they are.
Observe(r) ==
    /\ alive
    /\ last' = r
    /\ UNCHANGED <<d, trees, destroys, dups, frees, nParse, screens, alive,
                   lastLoad, lastFrom>>

Queried(op, arg, ret, calls) ==
    Observe(Result(op, arg, ret, calls, <<>>, 0, 0, NoPainter, NoPainter))

Painted(op, arg, p, r) ==
    Observe(Result(op, arg, NoValue, r.calls, r.pops, r.warns, 0, p, r.p))

IsValid == Queried("isValid", NoArg, [bool |-> isValid(d)], <<>>)

ErrorString == Queried("errorString", NoArg, [string |-> errorString(d)], <<>>)

IsEmpty ==
    LET a == isEmpty(d, trees) IN Queried("isEmpty", NoArg, [bool |-> a.ret], a.calls)

DefaultSize == Queried("defaultSize", NoArg, [size |-> defaultSize(d)], <<>>)

DefaultSizeF == Queried("defaultSizeF", NoArg, [size |-> defaultSizeF(d)], <<>>)

ViewBox == Queried("viewBox", NoArg, [rect |-> viewBox(d)], <<>>)

ViewBoxF == Queried("viewBoxF", NoArg, [rect |-> viewBoxF(d)], <<>>)

BoundsOnElement ==
    \E id \in Ids :
        LET a == boundsOnElement(d, trees, id)
        IN  Queried("boundsOnElement", [id |-> id], [rect |-> a.ret], a.calls)

ElementExists ==
    \E id \in Ids :
        LET a == elementExists(d, trees, id)
        IN  Queried("elementExists", [id |-> id], [bool |-> a.ret], a.calls)

TransformForElement ==
    \E id \in Ids :
        LET a == transformForElement(d, trees, id)
        IN  Queried("transformForElement", [id |-> id], [transform |-> a.ret], a.calls)

Render ==
    \E p \in Painters :
        Painted("render", NoArg, p, render(d, trees, p))

RenderBounds ==
    \E p \in Painters, bounds \in BoundsSet :
        Painted("renderBounds", [bounds |-> bounds], p, renderBounds(d, trees, p, bounds))

RenderId ==
    \E p \in Painters, id \in Ids, bounds \in BoundsSet :
        Painted("renderId", [id |-> id, bounds |-> bounds], p,
                renderId(d, trees, p, id, bounds))

Next ==
    \/ LoadFile
    \/ LoadData
    \/ Destruct
    \/ IsValid
    \/ ErrorString
    \/ IsEmpty
    \/ DefaultSize
    \/ DefaultSizeF
    \/ ViewBox
    \/ ViewBoxF
    \/ BoundsOnElement
    \/ ElementExists
    \/ TransformForElement
    \/ Render
    \/ RenderBounds
    \/ RenderId

Spec == Init /\ [][Next]_vars

\* ------------------------------------------------------------------ claims

LoadOps == {"loadFile", "loadData"}
DrawOps == {"render", "renderBounds", "renderId"}

\* The last call was a load, and it got as far as the engine's parser.
LoadReachedParse ==
    /\ last.op \in LoadOps
    /\ last.op = "loadFile" => ReachesParse(last.arg.path)

\* The facade owns no document and the engine holds no live tree.
FacadeEmpty ==
    /\ ~isValid(d)
    /\ \A h \in DOMAIN trees : ~trees[h].live

\* C1, as stated: whenever a load call (from a filesystem path, from a
\* ":/" resource path, or from bytes) returns false, the facade is empty
\* immediately afterwards.
C1_FailedLoadLeavesEmpty ==
    (last.op \in LoadOps /\ ~last.ret.bool) => FacadeEmpty

\* C1, amended: whenever a load call that reaches the engine's parser (a
\* filesystem path, bytes, or a ":/" path whose resource opens) returns
\* false, the facade is empty immediately afterwards and no document of an
\* earlier successful load is carried forward.
C1_FailedParseLeavesEmpty ==
    (LoadReachedParse /\ ~last.ret.bool) => FacadeEmpty

\* A load fails in the parser after an earlier load succeeded.
C1_Witness ==
    /\ LoadReachedParse
    /\ ~last.ret.bool
    /\ Len(trees) >= 1
    /\ FacadeEmpty

\* Documents the facade owns (0 or 1).
Owned == IF d.tree # NullTree THEN 1 ELSE 0

LiveTrees == {h \in DOMAIN trees : trees[h].live}

\* C2: at most one document is owned, the live trees are exactly the owned
\* one, every destroy call is given a live tree, the number of destroy calls
\* is the number of successful loads minus the number of owned documents,
\* and after destruction it is the number of successful loads.
C2_DestroyCount ==
    /\ Cardinality(LiveTrees) <= 1
    /\ LiveTrees = {d.tree} \ {NullTree}
    /\ destroys = Len(trees) - Owned
    /\ \A i \in DOMAIN last.calls :
          last.calls[i].fn = "resvg_tree_destroy" => last.calls[i].live
    /\ ~alive => destroys = Len(trees)

\* Two loads succeeded, and the facade was destroyed owning the second.
C2_Witness ==
    /\ ~alive
    /\ Len(trees) = 2
    /\ destroys = 2
    /\ Len(last.calls) = 1

\* C3: error_string is empty whenever a document is owned, every successful
\* load leaves it empty, and it is non-empty only when the most recent load
\* call returned false.
C3_ErrorString ==
    /\ isValid(d) => errorString(d) = ""
    /\ (last.op \in LoadOps /\ last.ret.bool) => errorString(d) = ""
    /\ errorString(d) # "" => lastLoad = "fail"

\* A load succeeds, a later one fails and leaves a message.
C3_Witness ==
    /\ Len(trees) >= 1
    /\ lastLoad = "fail"
    /\ errorString(d) # ""
    /\ ~isValid(d)

\* The error table of the specification (section 4.3).
C4_Message(c) ==
    CASE c = "OK"                  -> ""
      [] c = "NOT_AN_UTF8_STR"     -> "The SVG content has not an UTF-8 encoding."
      [] c = "FILE_OPEN_FAILED"    -> "Failed to open the file."
      [] c = "FILE_WRITE_FAILED"   -> "Failed to write to the file."
      [] c = "INVALID_FILE_SUFFIX" -> "Invalid file suffix."
      [] c = "MALFORMED_GZIP"      -> "Not a GZip compressed data."
      [] c = "PARSING_FAILED"      -> "Failed to parse an SVG data."
      [] c = "NO_CANVAS"           -> "Failed to allocate the canvas."

\* C4: for every load that reaches the engine's parser and every result
\* code c the engine answers, load returns true iff c is OK and error_string
\* afterwards is the message the error table gives for c.
C4_ErrorTranslation ==
    LoadReachedParse =>
        /\ last.arg.out.err \in Codes
        /\ last.ret.bool = (last.arg.out.err = "OK")
        /\ errorString(d) = C4_Message(last.arg.out.err)

\* A second load reaches the parser and the engine answers MALFORMED_GZIP.
C4_Witness ==
    /\ LoadReachedParse
    /\ nParse = 2
    /\ last.arg.out.err = "MALFORMED_GZIP"
    /\ errorString(d) = "Not a GZip compressed data."

\* The document behind the owned tree, as the engine holds it.
OwnedDoc == DocOf(trees[d.tree].doc)

\* C5: is_empty returns true when no document is owned or the engine reports
\* that the owned tree has no renderable nodes, and false when a document is
\* owned and the engine reports that the tree has renderable nodes.
C5_IsEmpty ==
    last.op = "isEmpty" =>
        last.ret.bool = (~isValid(d) \/ resvg_is_image_empty(trees, d.tree))

\* The number of painter calls of one kind in a draw.
Count(pops, name) == Cardinality({i \in DOMAIN pops : pops[i] = name})

\* C6: for any painter and any draw call, every painter save is matched by
\* exactly one restore before the call returns, and the painter's save-stack
\* depth, transform and render hints after the call are those before it.
C6_PainterRestored ==
    last.op \in DrawOps =>
        /\ Count(last.pops, "save") = Count(last.pops, "restore")
        /\ Count(last.pops, "save") <= 1
        /\ Len(last.pAfter.stack) = Len(last.pBefore.stack)
        /\ last.pAfter.stack = last.pBefore.stack
        /\ last.pAfter.transform = last.pBefore.transform
        /\ last.pAfter.hints = last.pBefore.hints

\* A whole-document draw saved, changed and restored a painter that came
\* with a transform, a hint and a saved state of its own.
C6_Witness ==
    /\ last.op = "renderBounds"
    /\ Count(last.pops, "save") = 1
    /\ Count(last.pops, "setTransform") = 1
    /\ last.pBefore.transform # <<>>
    /\ last.pBefore.stack # <<>>
    /\ last.pAfter = last.pBefore

\* C7: whenever a document is owned, viewbox_float is the viewbox the engine
\* reports for the currently owned tree and its size is default_size_float;
\* whenever no document is owned the viewbox callers see is the zero
\* rectangle.
C7_ViewBox ==
    /\ isValid(d) =>
          /\ viewBoxF(d) = OwnedDoc.viewbox
          /\ RectSize(viewBoxF(d)) = defaultSizeF(d)
          /\ last.op = "viewBoxF" => last.ret.rect = OwnedDoc.viewbox
    /\ ~isValid(d) =>
          /\ viewBoxF(d) = Rect(0, 0, 0, 0)
          /\ viewBox(d) = Rect(0, 0, 0, 0)
          /\ last.op = "viewBoxF" => last.ret.rect = Rect(0, 0, 0, 0)

\* The viewbox is asked for after a second document, with another viewbox,
\* replaced the first.
C7_Witness ==
    /\ last.op = "viewBoxF"
    /\ Len(trees) = 2
    /\ d.tree = 2
    /\ DocOf(trees[1].doc).viewbox # DocOf(trees[2].doc).viewbox
    /\ last.ret.rect = DocOf(trees[2].doc).viewbox

\* C8: with a document owned, when the engine's bounding-box query for an id
\* succeeds with (x, y, width, height), bounds_on_element(id) returns a
\* rectangle with the same x, y, width and height; when the query fails it
\* returns the zero rectangle.
C8_BoundsOnElement ==
    (last.op = "boundsOnElement" /\ isValid(d)) =>
        LET q == resvg_qt_get_node_bbox(trees, d.tree, toUtf8(last.arg.id))
        IN  IF q.ok
            THEN /\ last.ret.rect.x = q.bbox.x
                 /\ last.ret.rect.y = q.bbox.y
                 /\ last.ret.rect.w = q.bbox.w
                 /\ last.ret.rect.h = q.bbox.h
            ELSE last.ret.rect = Rect(0, 0, 0, 0)

\* What the queries answer without a document, but for default_size.
EmptyAnswers ==
    /\ ~isValid(d)
    /\ isEmpty(d, trees).ret
    /\ viewBoxF(d) = Rect(0, 0, 0, 0)
    /\ viewBox(d) = Rect(0, 0, 0, 0)

DegradedAnswers ==
    /\ viewBoxF(d) = Rect(0, 0, 0, 0)
    /\ viewBox(d) = Rect(0, 0, 0, 0)
    /\ \A id \in Ids :
          /\ boundsOnElement(d, trees, id) = Answer(Rect(0, 0, 0, 0), <<>>)
          /\ elementExists(d, trees, id) = Answer(FALSE, <<>>)
          /\ transformForElement(d, trees, id) = Answer(IdentityTransform, <<>>)
    /\ \A p \in Painters :
          /\ render(d, trees, p) = Drawn(p, <<>>, <<>>, 0)
          /\ \A bounds \in BoundsSet :
                /\ renderBounds(d, trees, p, bounds) = Drawn(p, <<>>, <<>>, 0)
                /\ \A id \in Ids :
                      renderId(d, trees, p, id, bounds) = Drawn(p, <<>>, <<>>, 0)
    /\ (last.op \notin LoadOps \cup {"construct", "destruct"}) =>
          /\ last.calls = <<>>
          /\ last.pops = <<>>
          /\ last.warns = 0
          /\ last.pAfter = last.pBefore
    /\ last.op = "elementExists" => ~last.ret.bool
    /\ last.op = "transformForElement" => last.ret.transform = IdentityTransform
    /\ last.op = "boundsOnElement" => last.ret.rect = Rect(0, 0, 0, 0)

RenderWhole == "resvg_qt_render_to_canvas"
RenderById == "resvg_qt_render_to_canvas_by_id"
RenderCalls(fn) == {i \in DOMAIN last.calls : last.calls[i].fn = fn}

\* C11: with a document owned, a by-id draw whose bounding-box query fails
\* emits exactly one warning, makes no engine render call and no painter
\* save, hint or transform change, and returns; one whose query succeeds
\* emits no warning and makes exactly one engine render-by-id call.
C11_MissingElement ==
    (last.op = "renderId" /\ isValid(d)) =>
        IF resvg_qt_get_node_bbox(trees, d.tree, toUtf8(last.arg.id)).ok
        THEN /\ last.warns = 0
             /\ Cardinality(RenderCalls(RenderById)) = 1
             /\ RenderCalls(RenderWhole) = {}
        ELSE /\ last.warns = 1
             /\ RenderCalls(RenderById) = {}
             /\ RenderCalls(RenderWhole) = {}
             /\ last.pops = <<>>
             /\ last.pAfter = last.pBefore

\* A by-id draw of an element that exists but has no bounding box.
C11_Witness ==
    /\ last.op = "renderId"
    /\ isValid(d)
    /\ resvg_node_exists(trees, d.tree, toUtf8(last.arg.id))
    /\ ~resvg_qt_get_node_bbox(trees, d.tree, toUtf8(last.arg.id)).ok
    /\ last.warns = 1
    /\ Len(last.calls) = 1

\* The effective rectangle of a draw: the bounds if valid, else the viewport.
Effective(bounds, p) ==
    IF bounds.w > 0 /\ bounds.h > 0
    THEN bounds
    ELSE Rect(p.viewport.x * Denom, p.viewport.y * Denom,
              p.viewport.w * Denom, p.viewport.h * Denom)

\* Scale (w / by.w, h / by.h) and translation (x, y).
ScaleTranslate(w, h, by, x, y) ==
    [a |-> Quot(w, by.w), b |-> <<0, 1>>, c |-> <<0, 1>>, d |-> Quot(h, by.h),
     e |-> Quot(x, Denom), f |-> Quot(y, Denom)]

\* The integer part of a non-negative real.
Truncated(v) == CHOOSE n \in 0..v : n * Denom <= v /\ v < (n + 1) * Denom

\* C15: a whole-document draw with a document owned uses as effective
\* rectangle r the bounds when valid and the painter's viewport otherwise
\* (render(painter) always the viewport), composes scale (r.width /
\* viewbox.width, r.height / viewbox.height) with translation (r.x, r.y) on top
\* of the painter's transform, and calls the engine's render-whole exactly once
\* between save and restore with the viewbox size truncated as target size.
C15_RenderWhole ==
    (last.op \in {"render", "renderBounds"} /\ isValid(d)) =>
        LET bounds == IF last.op = "render" THEN Rect(0, 0, 0, 0) ELSE last.arg.bounds
            r      == Effective(bounds, last.pBefore)
            vb     == OwnedDoc.viewbox
        IN  /\ Len(last.calls) = 1
            /\ last.calls[1].fn = RenderWhole
            /\ last.calls[1].tree = d.tree
            /\ last.calls[1].transform =
                  <<ScaleTranslate(r.w, r.h, vb, r.x, r.y)>> \o last.pBefore.transform
            /\ last.calls[1].depth = Len(last.pBefore.stack) + 1
            /\ last.calls[1].size = Size(Truncated(vb.w), Truncated(vb.h))
            /\ last.warns = 0

\* A whole-document draw without bounds of a document with a fractional
\* viewbox, on a painter with a transform of its own and a viewport away from
\* the origin.
C15_Witness ==
    /\ last.op = "renderBounds"
    /\ isValid(d)
    /\ ~RectIsValid(last.arg.bounds)
    /\ last.pBefore.transform # <<>>
    /\ last.pBefore.viewport.x # 0
    /\ OwnedDoc.viewbox.w % Denom # 0
    /\ Len(last.calls) = 1
    /\ Len(last.calls[1].transform) = 2

\* C16: a by-id draw of an element with bounding box bbox calls the engine's
\* render-by-id exactly once with target size (bbox.width, bbox.height)
\* truncated and with the painter's transform composed with scale (r.width /
\* bbox.width, r.height / bbox.height), r the bounds if valid else the
\* viewport, and with the translation of the caller's bounds origin, not r's:
\* (0, 0) for the zero rectangle even if the viewport origin is not (0, 0).
C16_RenderById ==
    (last.op = "renderId" /\ isValid(d)) =>
        LET q == resvg_qt_get_node_bbox(trees, d.tree, toUtf8(last.arg.id))
            r == Effective(last.arg.bounds, last.pBefore)
            n == Len(last.calls)
        IN  q.ok =>
              /\ Cardinality(RenderCalls(RenderById)) = 1
              /\ last.calls[n].fn = RenderById
              /\ last.calls[n].id = toUtf8(last.arg.id)
              /\ last.calls[n].size = Size(Truncated(q.bbox.w), Truncated(q.bbox.h))
              /\ last.calls[n].transform =
                    <<ScaleTranslate(r.w, r.h, q.bbox, last.arg.bounds.x, last.arg.bounds.y)>>
                       \o last.pBefore.transform
              /\ last.arg.bounds = Rect(0, 0, 0, 0) =>
                    /\ last.calls[n].transform[1].e = <<0, 1>>
                    /\ last.calls[n].transform[1].f = <<0, 1>>

\* A by-id draw with the zero rectangle as bounds on a painter whose viewport
\* is away from the origin, of an element with a fractional bounding box.
C16_Witness ==
    /\ last.op = "renderId"
    /\ isValid(d)
    /\ last.arg.bounds = Rect(0, 0, 0, 0)
    /\ last.pBefore.viewport.x # 0
    /\ last.pBefore.transform # <<>>
    /\ Cardinality(RenderCalls(RenderById)) = 1
    /\ last.calls[2].size.w * Denom # resvg_qt_get_node_bbox(trees, d.tree,
                                          toUtf8(last.arg.id)).bbox.w
    /\ last.calls[2].transform[1].e = <<0, 1>>

\* The step is a load from a resource path whose resource opens.
ResourceLoadStep ==
    /\ last'.op = "loadFile"
    /\ last'.arg.path \in ResPaths
    /\ last'.arg.path \in DOMAIN ResourceFiles

\* C12: a load from a ":/" path whose resource opens reads the resource
\* exactly once and is equivalent to load-from-bytes on the same bytes: from
\* the same prior state both return the same boolean and leave the same
\* is_valid, viewbox, error_string and a null base path.
C12_ResourceAsBytes ==
    [][ResourceLoadStep =>
          LET bytes == ResourceFiles[last'.arg.path]
              same  == loadData(World, bytes, last'.arg.out, screens)
          IN  /\ last'.reads = 1
              /\ \E i \in DOMAIN last'.calls :
                    /\ last'.calls[i].fn = "resvg_parse_tree_from_data"
                    /\ last'.calls[i].input = bytes
                    /\ last'.calls[i].path.isNull
              /\ \A i \in DOMAIN last'.calls :
                    last'.calls[i].fn # "resvg_parse_tree_from_file"
              /\ last'.ret.bool = same.ret
              /\ isValid(d') = isValid(same.w.d)
              /\ viewBoxF(d') = viewBoxF(same.w.d)
              /\ errorString(d') = errorString(same.w.d)
              /\ d'.opt.path.isNull
              /\ same.w.d.opt.path.isNull
    ]_vars

\* A resource is loaded successfully over a document loaded from a file.
C12_Witness ==
    /\ last.op = "loadFile"
    /\ last.arg.path = <<":", "/", "r">>
    /\ last.reads = 1
    /\ last.ret.bool
    /\ Len(trees) = 2
    /\ d.opt.path.isNull
    /\ dups = 1

\* The bytes of a filesystem path in UTF-8.
C13_Utf8(path) == IF path = <<"a">> THEN <<97>> ELSE <<195, 169>>

\* C13, as stated: options.base_path is non-null exactly when a document is
\* owned and it was loaded from a filesystem path, and then it is that exact
\* path; it is null when the document came from bytes or a resource, and
\* whenever no document is owned.
C13_BasePath ==
    /\ ~d.opt.path.isNull <=> (isValid(d) /\ lastFrom.kind = "file")
    /\ ~d.opt.path.isNull => d.opt.path.str = C13_Utf8(lastFrom.path)
    /\ ~isValid(d) => d.opt.path.isNull

\* C13, amended: options.base_path is non-null exactly when the facade is
\* alive and the latest load that got to the engine's parser was a load from
\* a filesystem path, whether it succeeded or failed, and then it is that
\* exact path in UTF-8; so while a document is owned it is non-null exactly
\* when that document was loaded from a filesystem path, and it is null
\* before any load, after a load from bytes or from a resource, and after
\* destruction.
C13_BasePathOfLatestLoad ==
    /\ ~d.opt.path.isNull <=> (alive /\ lastFrom.kind = "file")
    /\ ~d.opt.path.isNull => d.opt.path.str = C13_Utf8(lastFrom.path)
    /\ isValid(d) => (~d.opt.path.isNull <=> lastFrom.kind = "file")
    /\ (lastLoad = "none" \/ ~alive) => d.opt.path.isNull

\* A load from a filesystem path failed: no document, and the path stays.
C13_Witness ==
    /\ ~isValid(d)
    /\ lastLoad = "fail"
    /\ lastFrom = [kind |-> "file", path |-> <<"e'">>]
    /\ d.opt.path = [isNull |-> FALSE, str |-> <<195, 169>>]

\* The step is a load from a resource path whose resource does not open.
OpenFailStep ==
    /\ last'.op = "loadFile"
    /\ last'.arg.path \in ResPaths
    /\ last'.arg.path \notin DOMAIN ResourceFiles

\* C14: a load from a ":/" path whose resource cannot be opened returns
\* false and leaves the whole facade state unchanged: the owned document, the
\* viewbox, the base path, the options and error_string are what they were,
\* no reset and no engine call happens.
C14_OpenFailureChangesNothing ==
    [][OpenFailStep =>
          /\ ~last'.ret.bool
          /\ d' = d
          /\ trees' = trees
          /\ destroys' = destroys
          /\ dups' = dups
          /\ frees' = frees
          /\ last'.calls = <<>>
          /\ last'.reads = 0
    ]_vars

\* A resource fails to open while a document loaded from a file is owned.
C14_Witness ==
    /\ last.op = "loadFile"
    /\ last.arg.path = <<":", "/", "x">>
    /\ ~last.ret.bool
    /\ lastLoad = "fail"
    /\ isValid(d)
    /\ ~d.opt.path.isNull
    /\ errorString(d) = ""

\* The DPI the display gives: logical DPI times device pixel ratio of the
\* primary screen, or the engine's default without a display.
DisplayDpi ==
    IF Len(screens) > 0
    THEN screens[1].logicalDotsPerInch * screens[1].devicePixelRatio
    ELSE 96

\* C17: right after construction, and after every reset, the options' DPI is
\* the primary screen's logical DPI times its device pixel ratio when a
\* display is available, and the engine's default only when none is.
C17_Dpi == d.opt.dpi = DisplayDpi

\* C18: the base-path duplications minus the releases are 1 if
\* options.base_path is non-null and 0 otherwise; a path is released once,
\* never twice, and after destruction none remains allocated.
C18_BasePathAllocation ==
    /\ dups - frees = (IF d.opt.path.isNull THEN 0 ELSE 1)
    /\ frees <= dups
    /\ ~alive => dups = frees

\* Two loads from filesystem paths, then destruction.
C18_Witness ==
    /\ ~alive
    /\ dups = 2
    /\ frees = 2

\* The engine's entry points that take a tree, and those that make one.
TreeUsers == {"resvg_get_image_viewbox", "resvg_is_image_empty", "resvg_node_exists",
              "resvg_qt_get_node_bbox", "resvg_get_node_transform",
              "resvg_qt_render_to_canvas", "resvg_qt_render_to_canvas_by_id"}
Parsers == {"resvg_parse_tree_from_file", "resvg_parse_tree_from_data"}

\* C19: no engine query or render entry point is ever called with a null tree
\* or with a tree that has been destroyed, and the engine's parser is never
\* called while a tree is still owned (given that the engine leaves the
\* out-handle null when a parse fails).
C19_TreeHandles ==
    /\ \A i \in DOMAIN last.calls :
          /\ last.calls[i].fn \in TreeUsers =>
                (last.calls[i].tree # NullTree /\ last.calls[i].live)
          /\ last.calls[i].fn \in Parsers => last.calls[i].tree = NullTree
    /\ isValid(d) => (d.tree \in DOMAIN trees /\ trees[d.tree].live)

\* A by-id draw on the second document, after the first was destroyed.
C19_Witness ==
    /\ last.op = "renderId"
    /\ Len(last.calls) = 2
    /\ Len(trees) = 2
    /\ ~trees[1].live
    /\ last.calls[1].tree = 2
    /\ last.calls[2].tree = 2

====
